---- MODULE Spec2Model ----
(***************************************************************************)
(* Guided speaker diarization task of pyannote.audio                       *)
(* (src/pyannote/audio/tasks/segmentation/guided_speaker_diarization.py):  *)
(* the speaker budget selector (collate_y), the guide strategies           *)
(* (BaseGuide and its subclasses), collate_fn and training_step.           *)
(*                                                                         *)
(* A target matrix y of shape (num_frames, num_speakers) is a function     *)
(* [0..num_frames-1 -> [0..num_speakers-1 -> {0,1}]], indexed as y[f][s]   *)
(* like the numpy array. A matrix with zero columns has empty rows.        *)
(***************************************************************************)
EXTENDS Integers, Sequences, FiniteSets, TLC

\* ------------------------------------------------------------------ bounds
\* largest num_frames (model.example_output.num_frames) explored
MaxFrames == 2
\* largest number of samples in a batch
MaxBatch == 2
\* largest total number of label columns over the samples of one batch
MaxLabels == 3
\* largest max_speakers_per_chunk explored
MaxBudget == 2
\* largest number of channels of the targets handed to a guide strategy
MaxChannels == 2
\* largest number of active (frame, speaker) cells of the targets handed to a guide strategy alone
MaxActive == 1
\* largest min_frames / max_frames a RandomFrameGuide is configured with
MaxGuided == 3
\* freedom ranges over 0/FreedomDen, 1/FreedomDen, ..., FreedomDen/FreedomDen
FreedomDen == 2
\* largest value returned by the external loss function
MaxLoss == 1

\* times (annotation boundaries, chunk boundaries) range over 0 .. MaxTime time units
MaxTime == 3
\* largest frame step, in time units
MaxStep == 2
\* largest number of rows of self.annotations
MaxAnnotations == 3
\* number of distinct labels an annotation can carry
MaxSpeakers == 2
\* largest self.model.current_epoch a validation step is run at
MaxEpoch == 3
\* largest batch_idx a validation step is run with
MaxBatchIdx == 1

VARIABLES
    pc,                      \* position of the program
    num_frames,              \* self.model.example_output.num_frames
    max_speakers_per_chunk,  \* self.max_speakers_per_chunk
    batch,                   \* list of samples; b.data is b["y"].data, b.labels is b["y"].labels
    batch0,                  \* the samples as they were handed to the first collation
    collated_y,              \* result of collate_y: sequence of (num_frames, max_speakers_per_chunk) matrices
    kept,                    \* per sample: the input columns retained by collate_y (indices[:max]), <<>> when not truncated
    error,                   \* name of the exception raised, "none" otherwise
    strategy,                \* class of the guide strategy that was called, "none" before
    choice,                  \* index drawn by OneOf in self.guidance, -1 before
    min_frames,              \* min_frames of the called RandomFrameGuide
    max_frames,              \* max_frames of the called RandomFrameGuide
    targets,                 \* targets handed to the strategy: (batch, channels, frames, speakers)
    guided,                  \* transform_parameters["guided"]: (batch, channels, frames) booleans
    guides,                  \* targets returned by apply_transform: (batch, channels, frames, speakers)
    guide,                   \* batch["guide"]: (batch, frames, speakers)
    freedom,                 \* self.freedom = freedom / FreedomDen
    keep,                    \* training_step: samples within the speaker budget
    seg_loss,                \* training_step: segmentation loss
    weighted,                \* training_step: what the weighted segmentation_loss of the guide branch returned, -1 when not called
    guide_loss,              \* training_step: guide loss
    loss,                    \* training_step: returned loss, times FreedomDen
    logged,                  \* keys passed to self.model.log, and "validation_metric", "log_dict" for a call of these
    target_multilabel,       \* training_step: batch["y"][keep]
    waveform,                \* training_step: batch["X"][keep], validation_step: batch["X"]; each waveform held as the index of its sample
    guide_multilabel,        \* training_step: (guide + 1) * 0.5, each entry held as its number of halves; <<>> outside the guide branch
    weight,                  \* training_step: frame weight of the guide loss, (batch, frames, 1); <<>> outside the guide branch
    current_epoch,           \* validation_step: self.model.current_epoch, -1 before
    batch_idx,               \* validation_step: its argument batch_idx, -1 before
    figure,                  \* validation_step: plt.subplots was called for the figure of the first batch
    forward,                 \* batch sizes of the waveform and the guide handed to self.model (guide -1: no guide), <<>> when not called
    annotations,             \* self.annotations: set of rows [file_id, start, end, label], label in the scope of the file
    file_id,                 \* prepare_chunk: index of the file
    chunk,                   \* prepare_chunk: Segment(start_time, start_time + duration)
    step,                    \* self.model.example_output.frames.step, in time units
    chunk_annotations,       \* prepare_chunk: the rows of the file that overlap the chunk
    sample,                  \* prepare_chunk: sample["y"], data and labels; <<>> before
    args,                    \* __init__: the arguments of the call, <<>> when the call is not looked at
    max_speakers_per_frame,  \* self.max_speakers_per_frame
    specifications,          \* self.specifications: classes and powerset_max_classes
    augmentation,            \* self.augmentation: the transform the task was built with
    batch_size,              \* self.batch_size
    stage,                   \* collate_fn: its argument stage, "none" before
    batch_y                  \* batch["y"] returned by collate_fn: augmented.targets.squeeze(1)

collateVars == <<batch, batch0, collated_y, kept>>
guideVars == <<strategy, choice, min_frames, max_frames, targets, guided, guides, guide>>
trainVars == <<keep, seg_loss, weighted, guide_loss, loss, logged, target_multilabel, waveform, forward,
               guide_multilabel, weight, current_epoch, batch_idx, figure>>

chunkVars == <<annotations, file_id, chunk, step, chunk_annotations, sample>>

ctorVars == <<args, max_speakers_per_frame, specifications, augmentation, batch_size>>

returnVars == <<stage, batch_y>>

vars == <<pc, num_frames, max_speakers_per_chunk, freedom, error, collateVars, guideVars, trainVars,
          chunkVars, ctorVars, returnVars>>

\* ------------------------------------------------------------ matrices
Bit == {0, 1}

Frames(nf) == 0 .. (nf - 1)
Slots(n) == 0 .. (n - 1)

\* all 0/1 matrices of shape (nf, n), np.zeros((num_frames, num_labels), dtype=np.uint8) with ones written
Matrices(nf, n) == [Frames(nf) -> [Slots(n) -> Bit]]

\* y.shape[0]
NumRows(y) == Cardinality(DOMAIN y)

\* y.shape[1] (num_frames >= 1 in every state of the model)
NumCols(y) == Cardinality(DOMAIN y[0])

\* the s-th column of y, y[:, s]
Column(y, s) == [f \in DOMAIN y |-> y[f][s]]

\* all permutations of 0..n-1
Perms(n) == {p \in [Slots(n) -> Slots(n)] : \A i, j \in Slots(n) : p[i] = p[j] => i = j}

\* ------------------------------------------- unsigned 64-bit arithmetic
\* np.sum of a uint8 array accumulates in the platform unsigned integer (uint64).
\* A uint64 is held as four 16-bit limbs, limb 0 the least significant.
LimbBase == 65536
NumLimbs == 4
Limbs == 0 .. (NumLimbs - 1)

\* the uint64 holding n, for 0 <= n < 2^31
ToUint64(n) == [i \in Limbs |-> IF i = 0 THEN n % LimbBase
                                 ELSE IF i = 1 THEN n \div LimbBase
                                 ELSE 0]

\* unary minus on a uint64: two's complement, (~x + 1) mod 2^64
NegateUint64(x) ==
    [i \in Limbs |->
        LET carry == IF \A j \in Limbs : j < i => x[j] = 0 THEN 1 ELSE 0
        IN ((LimbBase - 1 - x[i]) + carry) % LimbBase]

\* a < b on uint64
LessUint64(a, b) ==
    \E i \in Limbs : a[i] < b[i] /\ \A j \in Limbs : j > i => a[j] = b[j]

\* ------------------------------------------------------------ collate_y
RECURSIVE SumUpTo(_, _, _)
\* y[0][s] + ... + y[f][s]
SumUpTo(y, s, f) == IF f < 0 THEN 0 ELSE y[f][s] + SumUpTo(y, s, f - 1)

\* np.sum(y, axis=0)[s] as a mathematical integer: number of active frames of column s
ActiveFrames(y, s) == SumUpTo(y, s, NumRows(y) - 1)

\* np.sum(y, axis=0): uint64 vector of the column sums
ColumnSums(y) == [s \in Slots(NumCols(y)) |-> ToUint64(ActiveFrames(y, s))]

\* -np.sum(y, axis=0)
NegatedColumnSums(y) == [s \in Slots(NumCols(y)) |-> NegateUint64(ColumnSums(y)[s])]

\* np.argsort(keys): every index vector that sorts keys in ascending order
\* (the default sort kind is not stable: any order among equal keys)
Argsort(keys) ==
    LET n == Cardinality(DOMAIN keys)
    IN {p \in Perms(n) : \A i \in Slots(n) : i + 1 < n => ~LessUint64(keys[p[i + 1]], keys[p[i]])}

\* y[:, indices]: the slice [: max_speakers_per_chunk] forgotten
KeepColumnsNoSlice(y, indices, max) ==
    [f \in DOMAIN y |-> [s \in DOMAIN y[f] |-> y[f][indices[s]]]]

\* y[:, indices[: max_speakers_per_chunk]]
KeepColumns(y, indices, max) ==
    [f \in DOMAIN y |-> [s \in Slots(max) |-> y[f][indices[s]]]]

\* np.pad(..., mode="edge"): the last column repeated instead of zeros
ZeroPadEdge(y, num_speakers, max) ==
    [f \in DOMAIN y |-> [s \in Slots(max) |-> IF s < num_speakers THEN y[f][s]
                                               ELSE IF num_speakers > 0 THEN y[f][num_speakers - 1]
                                               ELSE 0]]

\* np.pad(y, ((0, 0), (0, max - num_speakers)), mode="constant")
ZeroPad(y, num_speakers, max) ==
    [f \in DOMAIN y |-> [s \in Slots(max) |-> IF s < num_speakers THEN y[f][s] ELSE 0]]

\* np.random.shuffle(y.T) with the drawn permutation p: column i becomes the former column p[i]
ShuffleColumns(y, p) ==
    [f \in DOMAIN y |-> [s \in DOMAIN y[f] |-> y[f][p[s]]]]

\* The width normalisation of collate_y on sample b: every outcome
\* [z: the matrix before the shuffle, kept: the retained input columns when
\*  truncating, inplace: whether z is b["y"].data itself (exactly max labels)].
Normalize(b, max) ==
    LET y == b.data
        num_speakers == Len(b.labels)
    IN IF num_speakers > max
       THEN {[z |-> KeepColumns(y, indices, max),
              kept |-> [s \in Slots(max) |-> indices[s]],
              inplace |-> FALSE] : indices \in Argsort(NegatedColumnSums(y))}
       ELSE IF num_speakers < max
       THEN {[z |-> ZeroPad(y, num_speakers, max), kept |-> <<>>, inplace |-> FALSE]}
       ELSE {[z |-> y, kept |-> <<>>, inplace |-> TRUE]}

\* One iteration of the loop of collate_y on sample b: every outcome
\* [y: the matrix appended to collated_y, data: b["y"].data afterwards,
\*  kept: the retained input columns when truncating].
\* np.random.shuffle(y.T) works in place: with exactly max labels it shuffles b["y"].data.
CollateSample(b, max) ==
    UNION {{[y |-> ShuffleColumns(n.z, p),
             data |-> IF n.inplace THEN ShuffleColumns(n.z, p) ELSE b.data,
             kept |-> n.kept] : p \in Perms(NumCols(n.z))} : n \in Normalize(b, max)}

RECURSIVE CollateOutcomes(_, _)
\* the loop of collate_y over the batch: every sequence of per-sample outcomes
CollateOutcomes(samples, max) ==
    IF samples = <<>> THEN {<<>>}
    ELSE {<<o>> \o rest : o \in CollateSample(Head(samples), max),
                          rest \in CollateOutcomes(Tail(samples), max)}

\* np.stack(collated_y): the list (indexed from 1) as a tensor (indexed from 0)
Stack(list) == [b \in Slots(Len(list)) |-> list[b + 1]]

\* ------------------------------------------------------------- inputs
\* labels of a chunk with n distinct labels: list(np.unique(...)), here 1..n
LabelList(n) == [i \in 1 .. n |-> i]

\* the samples prepare_chunk can return with n labels
Samples(nf, n) == {[data |-> y, labels |-> LabelList(n)] : y \in Matrices(nf, n)}

RECURSIVE SumSeq(_)
SumSeq(s) == IF s = <<>> THEN 0 ELSE Head(s) + SumSeq(Tail(s))

\* label counts of the samples of a batch
LabelCounts == {c \in UNION {[1 .. n -> 0 .. MaxLabels] : n \in 0 .. MaxBatch} :
                   SumSeq(c) <= MaxLabels}

RECURSIVE Batches(_, _)
\* the batches whose samples have the label counts c
Batches(nf, c) ==
    IF c = <<>> THEN {<<>>}
    ELSE {<<b>> \o rest : b \in Samples(nf, Head(c)), rest \in Batches(nf, Tail(c))}

\* nothing has been guided yet
NoGuideYet ==
    /\ strategy = "none"
    /\ choice = -1
    /\ min_frames = 0
    /\ max_frames = 0
    /\ targets = <<>>
    /\ guided = <<>>
    /\ guides = <<>>
    /\ guide = <<>>

\* the default of the parameter max_speakers_per_frame of __init__
DefaultMaxSpeakersPerFrame == 2

\* the default of the parameter batch_size of __init__
DefaultBatchSize == 32

\* the batch sizes a task is built with: the largest batch explored, and the default
BatchSizes == {MaxBatch, DefaultBatchSize}

\* Specifications(..., classes=[f"speaker#{i+1}" for i in range(max_speakers_per_chunk)],
\* powerset_max_classes=max_speakers_per_frame): the classes are held as their numbers i+1
Specifications(chunk_max, frame_max) ==
    [classes |-> [i \in 1 .. chunk_max |-> i], powerset_max_classes |-> frame_max]

\* a task built by __init__ with max_speakers_per_frame left to its default
TaskBuilt ==
    /\ args = <<>>
    /\ max_speakers_per_frame = DefaultMaxSpeakersPerFrame
    /\ specifications = Specifications(max_speakers_per_chunk, max_speakers_per_frame)

\* collate_fn has not returned a batch
NotReturnedYet ==
    /\ stage = "none"
    /\ batch_y = <<>>

\* prepare_chunk is not looked at
NoChunkYet ==
    /\ annotations = {}
    /\ file_id = 0
    /\ chunk = <<>>
    /\ step = 1
    /\ chunk_annotations = {}
    /\ sample = <<>>

\* training_step has not run yet
NotTrainedYet ==
    /\ keep = <<>>
    /\ seg_loss = 0
    /\ weighted = -1
    /\ guide_loss = 0
    /\ loss = 0
    /\ logged = {}
    /\ target_multilabel = <<>>
    /\ waveform = <<>>
    /\ forward = <<>>
    /\ guide_multilabel = <<>>
    /\ weight = <<>>
    /\ current_epoch = -1
    /\ batch_idx = -1
    /\ figure = FALSE

\* a task and a batch of samples returned by prepare_chunk
InitBatch ==
    /\ pc = "batch"
    /\ num_frames \in 1 .. MaxFrames
    /\ max_speakers_per_chunk \in 1 .. MaxBudget
    /\ \E c \in LabelCounts : batch \in Batches(num_frames, c)
    /\ batch0 = batch
    /\ collated_y = <<>>
    /\ kept = <<>>
    /\ error = "none"
    /\ NoGuideYet
    /\ NotTrainedYet
    /\ NoChunkYet
    /\ TaskBuilt
    /\ NotReturnedYet

InitCollate ==
    /\ InitBatch
    /\ freedom = 0
    /\ augmentation = "Identity"
    /\ batch_size = DefaultBatchSize

\* collate_y(batch); np.stack raises ValueError on an empty list
CollateY ==
    /\ pc = "batch"
    /\ IF batch = <<>>
       THEN /\ pc' = "error"
            /\ error' = "ValueError"
            /\ UNCHANGED <<batch, collated_y, kept>>
       ELSE \E outs \in CollateOutcomes(batch, max_speakers_per_chunk) :
               /\ collated_y' = Stack([i \in DOMAIN outs |-> outs[i].y])
               /\ batch' = [i \in DOMAIN outs |-> [batch[i] EXCEPT !.data = outs[i].data]]
               /\ kept' = [i \in DOMAIN outs |-> outs[i].kept]
               /\ pc' = "collated"
               /\ UNCHANGED error
    /\ UNCHANGED <<returnVars, ctorVars, chunkVars, num_frames, max_speakers_per_chunk, freedom, batch0, guideVars, trainVars>>

NextCollate == CollateY

SpecCollate == InitCollate /\ [][NextCollate]_vars

\* ------------------------------------------------------ guide strategies
\* tensor.type(torch.int8) of an integral value
ToInt8(v) == ((v + 128) % 256) - 128

\* 2 * (t - 0.5) for an integer t. The float t - 0.5 is held as its number of
\* halves, 2 * t - 1; twice that many halves is a whole number.
GuideSpace(t) == (2 * (2 * t - 1)) \div 2

\* torch.zeros((batch_size, num_channels, num_frames), dtype=torch.bool)
ZerosMask(B, C, F) == [b \in Slots(B) |-> [c \in Slots(C) |-> [f \in Frames(F) |-> FALSE]]]

\* NoGuide.randomize_parameters
NoGuideMask(B, C, F) == ZerosMask(B, C, F)

\* FullGuide.randomize_parameters: torch.ones(..., dtype=torch.bool)
FullGuideMask(B, C, F) == [b \in Slots(B) |-> [c \in Slots(C) |-> [f \in Frames(F) |-> TRUE]]]

\* guided[:, :, : (num_frames + 1) // 2] = 1: the half rounded up
FirstHalfGuideMaskCeil(B, C, F) ==
    [b \in Slots(B) |-> [c \in Slots(C) |-> [f \in Frames(F) |-> f < (F + 1) \div 2]]]

\* FirstHalfGuide.randomize_parameters: guided[:, :, : (num_frames // 2)] = 1
FirstHalfGuideMask(B, C, F) ==
    [b \in Slots(B) |-> [c \in Slots(C) |-> [f \in Frames(F) |-> f < F \div 2]]]

\* a draw with an exclusive lower and an overshooting upper end
RandIntOffByOne(a, b) == a .. (b + 1)

\* random.randint(a, b): a <= k <= b
RandInt(a, b) == a .. b

\* random.sample(range(F), k) as the set of drawn indices; no outcome when it
\* raises ValueError (k > F or k < 0)
RandomSample(F, k) == {idx \in SUBSET Frames(F) : Cardinality(idx) = k}

\* does some draw of random.sample(range(F), randint(lo, hi)) raise ValueError
SampleCanRaise(lo, hi, F) == \E k \in RandInt(lo, hi) : k > F \/ k < 0

\* the loop of RandomFrameGuide.randomize_parameters when no draw raises:
\* per sample b, the indices guided_frames_idx
RandomFrameDraws(lo, hi, B, F) ==
    [Slots(B) -> UNION {RandomSample(F, k) : k \in RandInt(lo, hi)}]

\* guided[b, :, guided_frames_idx] = 1 for every b
RandomFrameGuideMask(draws, B, C, F) ==
    [b \in Slots(B) |-> [c \in Slots(C) |-> [f \in Frames(F) |-> f \in draws[b]]]]

\* apply_transform without the line guides[~guided] = 0.0
ApplyTransformNoMask(tg, gd) ==
    [b \in DOMAIN tg |-> [c \in DOMAIN tg[b] |-> [f \in DOMAIN tg[b][c] |->
        [s \in DOMAIN tg[b][c][f] |-> ToInt8(GuideSpace(tg[b][c][f][s]))]]]]

\* BaseGuide.apply_transform: guides = 2 * (targets - 0.5); guides[~guided] = 0.0;
\* guides.type(targets.dtype), targets being int8
ApplyTransform(tg, gd) ==
    [b \in DOMAIN tg |-> [c \in DOMAIN tg[b] |-> [f \in DOMAIN tg[b][c] |->
        [s \in DOMAIN tg[b][c][f] |->
            ToInt8(IF gd[b][c][f] THEN GuideSpace(tg[b][c][f][s]) ELSE 0)]]]]

\* number of samples, channels, frames of a (batch, channels, frames, speakers) tensor
BatchSize(tg) == Cardinality(DOMAIN tg)
NumChannels(tg) == Cardinality(DOMAIN tg[0])
NumFramesOf(tg) == Cardinality(DOMAIN tg[0][0])

\* a strategy with p = 1.0 called on targets: randomize_parameters, then
\* apply_transform on every sample
Guided(name, tg, mask) ==
    /\ strategy' = name
    /\ guided' = mask
    /\ guides' = ApplyTransform(tg, mask)

NoGuideCall ==
    /\ pc = "targets"
    /\ Guided("NoGuide", targets, NoGuideMask(BatchSize(targets), NumChannels(targets), NumFramesOf(targets)))
    /\ pc' = "guided"
    /\ UNCHANGED <<returnVars, ctorVars, chunkVars, num_frames, max_speakers_per_chunk, freedom, error, collateVars,
                   choice, min_frames, max_frames, targets, guide, trainVars>>

FullGuideCall ==
    /\ pc = "targets"
    /\ Guided("FullGuide", targets, FullGuideMask(BatchSize(targets), NumChannels(targets), NumFramesOf(targets)))
    /\ pc' = "guided"
    /\ UNCHANGED <<returnVars, ctorVars, chunkVars, num_frames, max_speakers_per_chunk, freedom, error, collateVars,
                   choice, min_frames, max_frames, targets, guide, trainVars>>

FirstHalfGuideCall ==
    /\ pc = "targets"
    /\ Guided("FirstHalfGuide", targets,
              FirstHalfGuideMask(BatchSize(targets), NumChannels(targets), NumFramesOf(targets)))
    /\ pc' = "guided"
    /\ UNCHANGED <<returnVars, ctorVars, chunkVars, num_frames, max_speakers_per_chunk, freedom, error, collateVars,
                   choice, min_frames, max_frames, targets, guide, trainVars>>

\* RandomFrameGuide(p=1.0, min_frames=lo, max_frames=hi) called on targets
RandomFrameGuideCall ==
    /\ pc = "targets"
    /\ \E lo \in 0 .. MaxGuided : \E hi \in lo .. MaxGuided :
          LET B == BatchSize(targets)
              C == NumChannels(targets)
              F == NumFramesOf(targets)
          IN /\ min_frames' = lo
             /\ max_frames' = hi
             /\ \/ /\ SampleCanRaise(lo, hi, F)
                   /\ strategy' = "RandomFrameGuide"
                   /\ pc' = "error"
                   /\ error' = "ValueError"
                   /\ UNCHANGED <<guided, guides>>
                \/ /\ \E draws \in RandomFrameDraws(lo, hi, B, F) :
                         Guided("RandomFrameGuide", targets, RandomFrameGuideMask(draws, B, C, F))
                   /\ pc' = "guided"
                   /\ UNCHANGED error
    /\ UNCHANGED <<returnVars, ctorVars, chunkVars, num_frames, max_speakers_per_chunk, freedom, collateVars,
                   choice, targets, guide, trainVars>>

\* the int8 targets of shape (B, C, F, S) with at most MaxActive active cells
SparseTargets(B, C, F, S) ==
    LET cells == Slots(B) \X Slots(C) \X Frames(F) \X Slots(S)
    IN {[b \in Slots(B) |-> [c \in Slots(C) |-> [f \in Frames(F) |-> [s \in Slots(S) |->
            IF <<b, c, f, s>> \in on THEN 1 ELSE 0]]]] :
                on \in {x \in SUBSET cells : Cardinality(x) <= MaxActive}}

\* targets of any shape handed to a guide strategy
InitGuide ==
    /\ pc = "targets"
    /\ num_frames \in 1 .. (MaxFrames + 1)
    /\ max_speakers_per_chunk \in 1 .. MaxBudget
    /\ freedom = 0
    /\ error = "none"
    /\ batch = <<>> /\ batch0 = <<>> /\ collated_y = <<>> /\ kept = <<>>
    /\ strategy = "none" /\ choice = -1 /\ min_frames = 0 /\ max_frames = 0
    /\ \E B \in 1 .. MaxBatch : \E C \in 1 .. MaxChannels :
          targets \in SparseTargets(B, C, num_frames, max_speakers_per_chunk)
    /\ guided = <<>> /\ guides = <<>> /\ guide = <<>>
    /\ NotTrainedYet
    /\ NoChunkYet
    /\ TaskBuilt
    /\ NotReturnedYet
    /\ augmentation = "Identity"
    /\ batch_size = DefaultBatchSize

NextGuide == NoGuideCall \/ FullGuideCall \/ FirstHalfGuideCall \/ RandomFrameGuideCall

SpecGuide == InitGuide /\ [][NextGuide]_vars

\* ------------------------------------------------------------ collate_fn
\* defaults of RandomFrameGuide in self.guidance
DefaultMinFrames == 1
DefaultMaxFrames == 10

\* self.guidance with FullGuide in place of the second NoGuide
GuidanceWithFullGuide ==
    <<[name |-> "NoGuide", min_frames |-> 0, max_frames |-> 0],
      [name |-> "FullGuide", min_frames |-> 0, max_frames |-> 0],
      [name |-> "FirstHalfGuide", min_frames |-> 0, max_frames |-> 0],
      [name |-> "RandomFrameGuide", min_frames |-> DefaultMinFrames, max_frames |-> DefaultMaxFrames]>>

\* the transforms of self.guidance = OneOf([...], p=1.0)
Guidance ==
    <<[name |-> "NoGuide", min_frames |-> 0, max_frames |-> 0],
      [name |-> "NoGuide", min_frames |-> 0, max_frames |-> 0],
      [name |-> "FirstHalfGuide", min_frames |-> 0, max_frames |-> 0],
      [name |-> "RandomFrameGuide", min_frames |-> DefaultMinFrames, max_frames |-> DefaultMaxFrames]>>

\* randomize_parameters of the strategy t: the masks it can set
StrategyMasks(t, B, C, F) ==
    IF t.name = "NoGuide" THEN {NoGuideMask(B, C, F)}
    ELSE IF t.name = "FullGuide" THEN {FullGuideMask(B, C, F)}
    ELSE IF t.name = "FirstHalfGuide" THEN {FirstHalfGuideMask(B, C, F)}
    ELSE {RandomFrameGuideMask(draws, B, C, F) :
             draws \in RandomFrameDraws(t.min_frames, t.max_frames, B, F)}

\* randomize_parameters of the strategy t can raise
StrategyCanRaise(t, F) ==
    t.name = "RandomFrameGuide" /\ SampleCanRaise(t.min_frames, t.max_frames, F)

\* collated_y.unsqueeze(1).type(torch.int8)
UnsqueezeInt8(y) ==
    [b \in DOMAIN y |-> [c \in Slots(1) |-> [f \in DOMAIN y[b] |->
        [s \in DOMAIN y[b][f] |-> ToInt8(y[b][f][s])]]]]

\* .targets.squeeze(1)
Squeeze(g) == [b \in DOMAIN g |-> g[b][0]]

\* collated_y.unsqueeze(1)
Unsqueeze(y) == [b \in DOMAIN y |-> [c \in Slots(1) |-> y[b]]]

\* the transforms self.augmentation can be: the default, which returns what it
\* is given, and a transform that returns the samples and the targets of the
\* batch in reverse order
Augmentations == {"Identity", "ReverseBatch"}

\* the samples of a batch in reverse order
ReverseBatch(t) == [b \in DOMAIN t |-> t[Cardinality(DOMAIN t) - 1 - b]]

\* self.augmentation(samples=..., targets=t).targets. Whether a transform acts
\* on a call (its probability, and its mode, which self.augmentation.train sets
\* from stage) is decided inside the transform: both outcomes are kept.
AugmentedTargets(aug, t) == IF aug = "ReverseBatch" THEN {t, ReverseBatch(t)} ELSE {t}

\* collate_fn(batch, stage): collate_X, collate_y, then one strategy of
\* self.guidance drawn by OneOf and called on the collated targets, then the
\* augmentation on the collated targets; y is what the augmentation returns, the
\* guide was made before it. On an empty batch collate_X (outside this file) or
\* np.stack in collate_y raises. The waveforms and the metadata are not modelled.
CollateFn ==
    /\ pc = "batch"
    /\ \E st \in {"train", "val"} : stage' = st
    /\ IF batch = <<>>
       THEN /\ pc' = "error"
            /\ \E e \in {"IndexError", "ValueError"} : error' = e
            /\ UNCHANGED <<batch, collated_y, kept, guideVars, batch_y>>
       ELSE \E outs \in CollateOutcomes(batch, max_speakers_per_chunk) :
            \E i \in Slots(Len(Guidance)) :
               LET y == Stack([j \in DOMAIN outs |-> outs[j].y])
                   tg == UnsqueezeInt8(y)
                   t == Guidance[i + 1]
                   B == Len(outs)
               IN /\ collated_y' = y
                  /\ batch' = [j \in DOMAIN outs |-> [batch[j] EXCEPT !.data = outs[j].data]]
                  /\ kept' = [j \in DOMAIN outs |-> outs[j].kept]
                  /\ choice' = i
                  /\ strategy' = t.name
                  /\ min_frames' = t.min_frames
                  /\ max_frames' = t.max_frames
                  /\ targets' = tg
                  /\ \/ /\ StrategyCanRaise(t, num_frames)
                        /\ pc' = "error"
                        /\ error' = "ValueError"
                        /\ UNCHANGED <<guided, guides, guide, batch_y>>
                     \/ /\ \E mask \in StrategyMasks(t, B, 1, num_frames) :
                              /\ guided' = mask
                              /\ guides' = ApplyTransform(tg, mask)
                              /\ guide' = Squeeze(ApplyTransform(tg, mask))
                        /\ \E a \in AugmentedTargets(augmentation, Unsqueeze(y)) :
                              batch_y' = Squeeze(a)
                        /\ pc' = "returned"
                        /\ UNCHANGED error
    /\ UNCHANGED <<ctorVars, chunkVars, num_frames, max_speakers_per_chunk, freedom, batch0, trainVars>>

\* --------------------------------------------------------- training_step
\* torch.sum(torch.any(target_multilabel, dim=1), dim=1)[b]
NumSpeakers(y, b) == Cardinality({s \in DOMAIN y[b][0] : \E f \in DOMAIN y[b] : y[b][f][s] # 0})

\* the speaker-budget filter left out: every sample is kept
KeepAll(y, max) == [b \in DOMAIN y |-> TRUE]

\* the comparison made strict: num_speakers < self.max_speakers_per_chunk
KeepStrict(y, max) == [b \in DOMAIN y |-> NumSpeakers(y, b) < max]

\* num_speakers <= self.max_speakers_per_chunk
Keep(y, max) == [b \in DOMAIN y |-> NumSpeakers(y, b) <= max]

\* torch.any(guide != 0.0)
AnyGuide(g) == \E b \in DOMAIN g : \E f \in DOMAIN g[b] : \E s \in DOMAIN g[b][f] : g[b][f][s] # 0

\* guide * 0.5, the shift by one left out
GuideMultilabelNoShift(g) ==
    [b \in DOMAIN g |-> [f \in DOMAIN g[b] |-> [s \in DOMAIN g[b][f] |-> g[b][f][s]]]]

\* (guide + 1) * 0.5. A product n * 0.5 is held as its number of halves, n:
\* 0 is 0.0, 1 is 0.5 and 2 is 1.0
GuideMultilabel(g) ==
    [b \in DOMAIN g |-> [f \in DOMAIN g[b] |-> [s \in DOMAIN g[b][f] |-> g[b][f][s] + 1]]]

\* torch.any(guide != 0.0, dim=2, keepdim=True).float()
Weight(g) ==
    [b \in DOMAIN g |-> [f \in DOMAIN g[b] |-> [k \in Slots(1) |->
        IF \E s \in DOMAIN g[b][f] : g[b][f][s] # 0 THEN 1 ELSE 0]]]

\* guide_loss = 0.0 forgotten in the else branch: the guide loss is computed anyway
GuideLossAlways(g, w) == w

\* the guide loss: the weighted loss when some entry of the guide is non-zero, else 0.0
GuideLoss(g, w) == IF AnyGuide(g) THEN w ELSE 0

\* the guide loss added without its weight (1 - self.freedom)
TotalLossUnweightedGuide(fr, seg, gl) == fr * seg + FreedomDen * gl

\* the two weights exchanged
TotalLossSwapped(fr, seg, gl) == (FreedomDen - fr) * seg + fr * gl

\* self.freedom * seg_loss + (1 - self.freedom) * guide_loss, times FreedomDen
TotalLoss(fr, seg, gl) == fr * seg + (FreedomDen - fr) * gl

\* x[keep] for a boolean tensor keep: the entries of x at the kept indices, in order
BoolIndex(x, k) ==
    LET on == {b \in DOMAIN k : k[b]}
        nth(i) == CHOOSE b \in on : Cardinality({c \in on : c < b}) = i
    IN [i \in Slots(Cardinality(on)) |-> x[nth(i)]]

\* batch["X"]: one waveform per sample, held as the index of the sample
Waveforms(y) == [b \in DOMAIN y |-> b]

\* training_step(batch, batch_idx) on a batch with target batch_y and guide
\* guide. The forward pass, the permutations and nll_loss are external: the
\* losses they yield are drawn, and a forward pass handed a waveform and a guide
\* of different batch sizes either raises or goes on.
TrainingStep ==
    /\ pc = "returned"
    /\ keep' = Keep(batch_y, max_speakers_per_chunk)
    /\ target_multilabel' = BoolIndex(batch_y, Keep(batch_y, max_speakers_per_chunk))
    /\ waveform' = BoolIndex(Waveforms(batch_y), Keep(batch_y, max_speakers_per_chunk))
    /\ IF \A b \in DOMAIN batch_y : ~Keep(batch_y, max_speakers_per_chunk)[b]
       THEN /\ loss' = 0
            /\ pc' = "trained"
            /\ UNCHANGED <<seg_loss, weighted, guide_loss, logged, forward, error,
                           guide_multilabel, weight>>
       ELSE /\ forward' = [waveform |-> Cardinality(DOMAIN waveform'),
                           guide |-> Cardinality(DOMAIN guide)]
            /\ \/ /\ Cardinality(DOMAIN waveform') # Cardinality(DOMAIN guide)
                  /\ pc' = "error"
                  /\ error' = "RuntimeError"
                  /\ UNCHANGED <<seg_loss, weighted, guide_loss, loss, logged,
                                 guide_multilabel, weight>>
               \/ \E seg \in 0 .. MaxLoss : \E w \in 0 .. MaxLoss :
                      /\ seg_loss' = seg
                      /\ guide_multilabel' = IF AnyGuide(guide) THEN GuideMultilabel(guide) ELSE <<>>
                      /\ weight' = IF AnyGuide(guide) THEN Weight(guide) ELSE <<>>
                      /\ weighted' = IF AnyGuide(guide) THEN w ELSE -1
                      /\ guide_loss' = GuideLoss(guide, w)
                      /\ loss' = TotalLoss(freedom, seg, GuideLoss(guide, w))
                      /\ logged' = {"loss/train/segmentation", "loss/train/guide", "loss/train"}
                      /\ pc' = "trained"
                      /\ UNCHANGED error
    /\ UNCHANGED <<current_epoch, batch_idx, figure>>
    /\ UNCHANGED <<returnVars, ctorVars, chunkVars, num_frames, max_speakers_per_chunk, freedom, collateVars, guideVars>>

\* the number of samples the figure of validation_step is laid out for, at most
MaxFigureSamples == 9

RECURSIVE IsPowerOfTwo(_)
\* math.log2(n) % 1 == 0 for n >= 1
IsPowerOfTwo(n) == n = 1 \/ (n > 1 /\ n % 2 = 0 /\ IsPowerOfTwo(n \div 2))

\* the guard of the figure: validation_step returns before it when
\* current_epoch == 0 or math.log2(current_epoch) % 1 > 0 or batch_idx > 0
FigureDue(epoch, idx) == ~(epoch = 0 \/ ~IsPowerOfTwo(epoch) \/ idx > 0)

\* num_samples = min(self.batch_size, 9)
NumSamples(bs) == IF bs <= MaxFigureSamples THEN bs ELSE MaxFigureSamples

\* validation_step(batch, batch_idx): the forward pass on every sample of the
\* batch, without the guide and without the speaker-budget filter, then the
\* segmentation loss (external), the validation metric and their logs. At the
\* first batch of an epoch that is a power of two the figure is made: the loop
\* reads y[sample_idx] for sample_idx < num_samples and raises IndexError when
\* the batch has fewer samples. Nothing is returned; the plots and the loggers
\* are not modelled.
ValidationStep ==
    /\ pc = "returned"
    /\ waveform' = Waveforms(batch_y)
    /\ forward' = [waveform |-> Cardinality(DOMAIN batch_y), guide |-> -1]
    /\ logged' = {"loss/val/segmentation", "validation_metric", "log_dict"}
    /\ \E epoch \in 0 .. MaxEpoch : \E idx \in 0 .. MaxBatchIdx :
          /\ current_epoch' = epoch
          /\ batch_idx' = idx
          /\ figure' = FigureDue(epoch, idx)
          /\ IF FigureDue(epoch, idx) /\ NumSamples(batch_size) > Cardinality(DOMAIN batch_y)
             THEN /\ pc' = "error"
                  /\ error' = "IndexError"
             ELSE /\ pc' = "validated"
                  /\ UNCHANGED error
    /\ UNCHANGED <<keep, seg_loss, weighted, guide_loss, loss, target_multilabel, guide_multilabel, weight>>
    /\ UNCHANGED <<returnVars, ctorVars, chunkVars, num_frames, max_speakers_per_chunk, freedom, collateVars, guideVars>>

Init ==
    /\ InitBatch
    /\ freedom \in 0 .. FreedomDen
    /\ augmentation \in Augmentations
    /\ batch_size \in BatchSizes

Next == CollateFn \/ TrainingStep \/ ValidationStep

Spec == Init /\ [][Next]_vars

\* --------------------------------------------- training_step on any batch
\* target tensors of shape (B, F, S)
TargetBatches(B, F, S) == [Slots(B) -> Matrices(F, S)]

\* training_step or validation_step is handed any batch: a target of any width
\* and any batch size (zero included), with the guide a deterministic strategy
\* of self.guidance makes of it
InitTrain ==
    /\ pc = "returned"
    /\ num_frames \in 1 .. MaxFrames
    /\ max_speakers_per_chunk \in 1 .. MaxBudget
    /\ freedom \in 0 .. FreedomDen
    /\ error = "none"
    /\ batch = <<>> /\ batch0 = <<>> /\ kept = <<>>
    /\ \E B \in 0 .. MaxBatch : \E S \in 1 .. (MaxBudget + 1) :
          collated_y \in TargetBatches(B, num_frames, S)
    /\ choice \in {i \in Slots(Len(Guidance)) : Guidance[i + 1].name \in {"NoGuide", "FirstHalfGuide"}}
    /\ strategy = Guidance[choice + 1].name
    /\ min_frames = 0 /\ max_frames = 0
    /\ targets = UnsqueezeInt8(collated_y)
    /\ guided \in StrategyMasks(Guidance[choice + 1], Cardinality(DOMAIN collated_y), 1, num_frames)
    /\ guides = ApplyTransform(targets, guided)
    /\ guide = Squeeze(guides)
    /\ NotTrainedYet
    /\ NoChunkYet
    /\ TaskBuilt
    /\ augmentation = "Identity"
    /\ batch_size \in BatchSizes
    /\ stage = "train"
    /\ batch_y = collated_y

NextTrain == TrainingStep \/ ValidationStep

SpecTrain == InitTrain /\ [][NextTrain]_vars

\* --------------------------------------------------------- prepare_chunk
\* Times are whole numbers of a time unit and the frame step is a whole number
\* of units, so that start / step is an exact fraction. self.annotations is held
\* as a set of rows: the loop of prepare_chunk only writes ones, so neither the
\* order of the rows nor a repeated row changes its result.
FileIds == {0, 1}

\* the rows self.annotations can hold: a speech turn of a file, start <= end
AnnotationRows ==
    {a \in [file_id : FileIds, start : 0 .. MaxTime, end : 0 .. MaxTime,
             label : 1 .. MaxSpeakers] : a.start <= a.end}

RECURSIVE SetsUpTo(_, _)
\* the subsets of A with at most k elements
SetsUpTo(A, k) ==
    IF k = 0 THEN {{}}
    ELSE LET smaller == SetsUpTo(A, k - 1)
         IN smaller \cup {x \cup {a} : x \in smaller, a \in A}

\* Segment(start_time, start_time + duration)
Segment(start_time, duration) == [start |-> start_time, end |-> start_time + duration]

\* self.annotations[self.annotations["file_id"] == file_id]
FileAnnotations(an, fid) == {a \in an : a.file_id = fid}

\* the overlap test with closed comparisons: a row touching the chunk is taken
ChunkAnnotationsClosed(an, ch) == {a \in an : a.start <= ch.end /\ a.end >= ch.start}

\* annotations[(annotations["start"] < chunk.end) & (annotations["end"] > chunk.start)]
ChunkAnnotations(an, ch) == {a \in an : a.start < ch.end /\ a.end > ch.start}

\* np.maximum, np.minimum
Maximum(a, b) == IF a >= b THEN a ELSE b
Minimum(a, b) == IF a <= b THEN a ELSE b

\* np.floor(t / step).astype(np.int) for t >= 0
Floor(t, st) == t \div st

\* np.ceil(t / step).astype(np.int) for t >= 0
Ceil(t, st) == (t + st - 1) \div st

\* start_idx of a row
StartIdx(a, ch, st) == Floor(Maximum(a.start, ch.start) - ch.start, st)

\* end_idx rounded down instead of up
EndIdxFloor(a, ch, st) == Floor(Minimum(a.end, ch.end) - ch.start, st)

\* end_idx of a row
EndIdx(a, ch, st) == Ceil(Minimum(a.end, ch.end) - ch.start, st)

RECURSIVE Sorted(_)
\* the elements of a set of integers, in increasing order
Sorted(S) ==
    IF S = {} THEN <<>>
    ELSE LET least == CHOOSE x \in S : \A z \in S : x <= z
         IN <<least>> \o Sorted(S \ {least})

\* list(np.unique(chunk_annotations[label_scope_key]))
Unique(ca) == Sorted({a.label : a \in ca})

\* mapping = {label: idx for idx, label in enumerate(labels)}
Mapping(labels) == [l \in {labels[i] : i \in DOMAIN labels} |->
                       (CHOOSE i \in DOMAIN labels : labels[i] = l) - 1]

\* the rows y[start:end] selects out of nf rows, for start, end >= 0: the slice is clipped
SliceRows(start, end, nf) == {f \in Frames(nf) : start <= f /\ f < end}

\* y = np.zeros((num_frames, num_labels)), then y[start:end, mapped_label] = 1
\* for every row of chunk_annotations
ChunkTarget(ca, ch, st, nf) ==
    LET labels == Unique(ca)
        mapping == Mapping(labels)
    IN [f \in Frames(nf) |-> [s \in Slots(Len(labels)) |->
           IF \E a \in ca : /\ mapping[a.label] = s
                             /\ f \in SliceRows(StartIdx(a, ch, st), EndIdx(a, ch, st), nf)
           THEN 1 ELSE 0]]

\* a task, its annotations, and the arguments of prepare_chunk
InitPrepare ==
    /\ pc = "chunk"
    /\ num_frames \in 1 .. MaxFrames
    /\ max_speakers_per_chunk \in 1 .. MaxBudget
    /\ freedom = 0
    /\ error = "none"
    /\ batch = <<>> /\ batch0 = <<>> /\ collated_y = <<>> /\ kept = <<>>
    /\ NoGuideYet
    /\ NotTrainedYet
    /\ annotations \in SetsUpTo(AnnotationRows, MaxAnnotations)
    /\ file_id \in FileIds
    /\ \E start_time \in 0 .. (MaxTime - 1) : \E duration \in 1 .. (MaxTime - start_time) :
          chunk = Segment(start_time, duration)
    /\ step \in 1 .. MaxStep
    /\ chunk_annotations = {}
    /\ sample = <<>>
    /\ TaskBuilt
    /\ NotReturnedYet
    /\ augmentation = "Identity"
    /\ batch_size = DefaultBatchSize

\* prepare_chunk(file_id, start_time, duration); the waveform and the metadata
\* of the sample are not modelled
PrepareChunk ==
    /\ pc = "chunk"
    /\ chunk_annotations' = ChunkAnnotations(FileAnnotations(annotations, file_id), chunk)
    /\ sample' = [data |-> ChunkTarget(chunk_annotations', chunk, step, num_frames),
                  labels |-> Unique(chunk_annotations')]
    /\ pc' = "prepared"
    /\ UNCHANGED <<annotations, file_id, chunk, step, num_frames, max_speakers_per_chunk,
                   freedom, error, collateVars, guideVars, trainVars, ctorVars, returnVars>>

NextPrepare == PrepareChunk

SpecPrepare == InitPrepare /\ [][NextPrepare]_vars

\* ------------------------------------------------------------- __init__
\* the classes a protocol argument can be an instance of
ProtocolClasses == {"SpeakerDiarizationProtocol", "CollectionProtocol"}

\* isinstance(protocol, SpeakerDiarizationProtocol)
IsSpeakerDiarizationProtocol(p) == p = "SpeakerDiarizationProtocol"

\* the arguments __init__ goes through with: its only guard is the one on the protocol
ConfigAccepted(a) == IsSpeakerDiarizationProtocol(a.protocol)

\* the arguments of a call of GuidedSpeakerDiarization(...); duration, balance,
\* the data loader options and the metric are not modelled
InitConstruct ==
    /\ pc = "new"
    /\ args \in [protocol : ProtocolClasses,
                 max_speakers_per_chunk : 0 .. MaxBudget,
                 max_speakers_per_frame : 0 .. (MaxBudget + 1),
                 freedom : 0 .. FreedomDen,
                 augmentation : Augmentations,
                 batch_size : BatchSizes]
    /\ augmentation = "unset"
    /\ batch_size = -1
    /\ NotReturnedYet
    /\ num_frames = 1
    /\ max_speakers_per_chunk = -1
    /\ max_speakers_per_frame = -1
    /\ freedom = -1
    /\ specifications = <<>>
    /\ error = "none"
    /\ batch = <<>> /\ batch0 = <<>> /\ collated_y = <<>> /\ kept = <<>>
    /\ NoGuideYet
    /\ NotTrainedYet
    /\ NoChunkYet

\* GuidedSpeakerDiarization.__init__: the attributes are unset (-1, <<>>,
\* "unset") until they are assigned; Task.__init__, called before the guard on
\* the protocol, is given the augmentation and the batch size, and not the
\* speaker budget
Construct ==
    /\ pc = "new"
    /\ augmentation' = args.augmentation
    /\ batch_size' = args.batch_size
    /\ IF ~ConfigAccepted(args)
       THEN /\ pc' = "error"
            /\ error' = "ValueError"
            /\ UNCHANGED <<max_speakers_per_chunk, max_speakers_per_frame, freedom, specifications>>
       ELSE /\ max_speakers_per_chunk' = args.max_speakers_per_chunk
            /\ max_speakers_per_frame' = args.max_speakers_per_frame
            /\ freedom' = args.freedom
            /\ specifications' = Specifications(args.max_speakers_per_chunk, args.max_speakers_per_frame)
            /\ pc' = "constructed"
            /\ UNCHANGED error
    /\ UNCHANGED <<args, num_frames, chunkVars, collateVars, guideVars, trainVars, returnVars>>

NextConstruct == Construct

SpecConstruct == InitConstruct /\ [][NextConstruct]_vars

\* ------------------------------------------------------------ claims
\* number of columns of y equal to the column vector v
CountColumns(y, v) == Cardinality({s \in DOMAIN y[0] : Column(y, s) = v})

ZeroColumn(nf) == [f \in Frames(nf) |-> 0]

\* C1: every matrix produced by collate_y has num_frames rows and exactly
\* max_speakers_per_chunk columns, whatever the number of labels of the sample,
\* and a chunk without labels yields an all-zero matrix (no error).
C1_FixedWidth ==
    /\ (batch0 # <<>>) => error = "none"
    /\ pc = "collated" =>
          /\ DOMAIN collated_y = Slots(Len(batch0))
          /\ \A i \in DOMAIN batch0 :
                /\ DOMAIN collated_y[i - 1] = Frames(num_frames)
                /\ \A f \in Frames(num_frames) :
                      DOMAIN collated_y[i - 1][f] = Slots(max_speakers_per_chunk)
                /\ Len(batch0[i].labels) = 0 =>
                      \A f \in Frames(num_frames) :
                         \A s \in Slots(max_speakers_per_chunk) : collated_y[i - 1][f][s] = 0

\* a batch with a chunk without labels and a chunk with too many has been collated
C1_Witness ==
    /\ pc = "collated"
    /\ \E i, j \in DOMAIN batch0 :
          /\ Len(batch0[i].labels) = 0
          /\ Len(batch0[j].labels) > max_speakers_per_chunk

\* C2: when a chunk has more labels than max_speakers_per_chunk, every column
\* collate_y retains has at least as many active frames as every column it drops.
C2_KeepsMostTalkative ==
    pc = "collated" =>
       \A i \in DOMAIN batch0 :
          LET y == batch0[i].data
              n == Len(batch0[i].labels)
              retained == {kept[i][s] : s \in DOMAIN kept[i]}
          IN n > max_speakers_per_chunk =>
                \A r \in retained : \A d \in Slots(n) \ retained :
                   ActiveFrames(y, r) >= ActiveFrames(y, d)

\* C3: when a chunk has fewer labels than max_speakers_per_chunk, the columns
\* of the matrix produced by collate_y are, as a multiset, the input columns
\* plus (max_speakers_per_chunk - num_labels) all-zero columns.
C3_PaddingOnlyZeros ==
    pc = "collated" =>
       \A i \in DOMAIN batch0 :
          LET y == batch0[i].data
              n == Len(batch0[i].labels)
          IN n < max_speakers_per_chunk =>
                \A v \in {Column(collated_y[i - 1], s) : s \in Slots(max_speakers_per_chunk)}
                         \cup {Column(y, s) : s \in Slots(n)} \cup {ZeroColumn(num_frames)} :
                   CountColumns(collated_y[i - 1], v) =
                      Cardinality({s \in Slots(n) : Column(y, s) = v})
                      + (IF v = ZeroColumn(num_frames) THEN max_speakers_per_chunk - n ELSE 0)

\* a chunk with one active label was padded and the shuffle moved its column
C3_Witness ==
    /\ pc = "collated"
    /\ \E i \in DOMAIN batch0 :
          /\ Len(batch0[i].labels) = 1
          /\ max_speakers_per_chunk = 2
          /\ Column(batch0[i].data, 0) # ZeroColumn(num_frames)
          /\ Column(collated_y[i - 1], 1) = Column(batch0[i].data, 0)

\* number of guided frames of sample b in channel c
GuidedFrames(b, c) == Cardinality({f \in DOMAIN guided[b][c] : guided[b][c][f]})

\* C4: every value of the guide tensor returned by apply_transform is -1, 0 or +1;
\* it is 0 exactly at the unguided frames and, at a guided frame, +1 where the
\* target is 1 and -1 where it is 0, so a frame is zero in every slot or in none.
C4_GuideValues ==
    pc = "guided" =>
       \A b \in DOMAIN guides : \A c \in DOMAIN guides[b] : \A f \in DOMAIN guides[b][c] :
          /\ \A s \in DOMAIN guides[b][c][f] :
                /\ guides[b][c][f][s] \in {-1, 0, 1}
                /\ guides[b][c][f][s] = 0 <=> ~guided[b][c][f]
                /\ guided[b][c][f] =>
                      guides[b][c][f][s] = (IF targets[b][c][f][s] = 1 THEN 1 ELSE -1)
          /\ \/ \A s \in DOMAIN guides[b][c][f] : guides[b][c][f][s] = 0
             \/ \A s \in DOMAIN guides[b][c][f] : guides[b][c][f][s] # 0

\* a guided frame with an active and an inactive speaker, next to an unguided frame
C4_Witness ==
    /\ pc = "guided"
    /\ \E b \in DOMAIN guides : \E c \in DOMAIN guides[b] : \E f, g \in DOMAIN guides[b][c] :
          /\ guided[b][c][f] /\ ~guided[b][c][g]
          /\ \E s, t \in DOMAIN guides[b][c][f] :
                guides[b][c][f][s] = 1 /\ guides[b][c][f][t] = -1

\* what C5 says of a finished call of RandomFrameGuide
RandomFrameResult ==
    /\ pc = "guided"
    /\ error = "none"
    /\ \A b \in DOMAIN guided :
          /\ min_frames <= GuidedFrames(b, 0)
          /\ GuidedFrames(b, 0) <= max_frames
          /\ \A c \in DOMAIN guided[b] : guided[b][c] = guided[b][0]

\* C5 as stated: for every num_frames >= 1 and every min_frames <= max_frames, a
\* call of RandomFrameGuide completes without error and marks, per sample, k
\* distinct frames with min_frames <= k <= max_frames, the same in every channel.
C5_Original ==
    (strategy = "RandomFrameGuide" /\ pc # "targets") => RandomFrameResult

\* C5 amended: the same, for 0 <= min_frames <= max_frames <= num_frames.
C5_RandomFrameWithinChunk ==
    (strategy = "RandomFrameGuide" /\ pc # "targets" /\ max_frames <= NumFramesOf(targets))
       => RandomFrameResult

\* two samples of one batch were guided on different numbers of frames, in two channels
C5_Witness ==
    /\ pc = "guided"
    /\ strategy = "RandomFrameGuide"
    /\ max_frames <= NumFramesOf(targets)
    /\ NumChannels(targets) = 2
    /\ \E b, d \in DOMAIN guided : GuidedFrames(b, 0) # GuidedFrames(d, 0)

\* C6: NoGuide marks no frame and its guide tensor is entirely zero, FullGuide
\* marks every frame, FirstHalfGuide marks exactly the frames f with
\* f < num_frames div 2, i.e. 2 * (f + 1) <= num_frames, in every sample and channel.
C6_DeterministicMasks ==
    pc = "guided" =>
       \A b \in DOMAIN guided : \A c \in DOMAIN guided[b] : \A f \in DOMAIN guided[b][c] :
          /\ strategy = "NoGuide" =>
                ~guided[b][c][f] /\ \A s \in DOMAIN guides[b][c][f] : guides[b][c][f][s] = 0
          /\ strategy = "FullGuide" => guided[b][c][f]
          /\ strategy = "FirstHalfGuide" =>
                (guided[b][c][f] <=> 2 * (f + 1) <= NumFramesOf(targets))

\* FirstHalfGuide on a chunk of three frames: only the first frame is guided
C6_Witness ==
    /\ pc = "guided"
    /\ strategy = "FirstHalfGuide"
    /\ NumFramesOf(targets) = 3
    /\ guided[0][0][0] /\ ~guided[0][0][1] /\ ~guided[0][0][2]

\* C7: every call of collate_fn draws one entry of [NoGuide, NoGuide,
\* FirstHalfGuide, RandomFrameGuide(1, 10)] for the whole batch, never FullGuide,
\* and applies it to every sample: each sample's mask is one that strategy sets
\* and each sample's guide is the transformed target.
C7_OneStrategyPerBatch ==
    (pc \in {"returned", "trained"} \/ (pc = "error" /\ batch0 # <<>>)) =>
       /\ choice \in 0 .. 3
       /\ strategy = <<"NoGuide", "NoGuide", "FirstHalfGuide", "RandomFrameGuide">>[choice + 1]
       /\ strategy # "FullGuide"
       /\ strategy = "RandomFrameGuide" => (min_frames = 1 /\ max_frames = 10)
       /\ pc # "error" =>
             \A b \in DOMAIN guide :
                /\ strategy = "NoGuide" => GuidedFrames(b, 0) = 0
                /\ strategy = "FirstHalfGuide" =>
                      \A f \in Frames(num_frames) : guided[b][0][f] <=> 2 * (f + 1) <= num_frames
                /\ strategy = "RandomFrameGuide" =>
                      (1 <= GuidedFrames(b, 0) /\ GuidedFrames(b, 0) <= 10)
                /\ \A f \in Frames(num_frames) : \A s \in Slots(max_speakers_per_chunk) :
                      guide[b][f][s] = (IF ~guided[b][0][f] THEN 0
                                        ELSE IF collated_y[b][f][s] = 1 THEN 1 ELSE -1)

\* collate_fn returned a batch of two samples guided by RandomFrameGuide
C7_Witness ==
    /\ pc = "returned"
    /\ strategy = "RandomFrameGuide"
    /\ Len(batch0) = 2
    /\ \A b \in DOMAIN guide : GuidedFrames(b, 0) >= 1

\* is every entry of batch["guide"] zero
GuideAllZero ==
    \A b \in DOMAIN guide : \A f \in DOMAIN guide[b] : \A s \in DOMAIN guide[b][f] :
       guide[b][f][s] = 0

\* C8: training_step returns freedom * seg_loss + (1 - freedom) * guide_loss
\* (here times FreedomDen), where guide_loss is 0 when the guide tensor is
\* entirely zero and the weighted guide loss when some entry is non-zero.
C8_LossComposition ==
    (pc = "trained" /\ batch0 # <<>>) =>
       /\ loss = freedom * seg_loss + (FreedomDen - freedom) * guide_loss
       /\ GuideAllZero => (guide_loss = 0 /\ weighted = -1)
       /\ ~GuideAllZero => (guide_loss = weighted /\ weighted >= 0)

\* both losses weighed in: freedom strictly between 0 and 1, a guided batch
C8_Witness ==
    /\ pc = "trained"
    /\ freedom > 0 /\ freedom < FreedomDen
    /\ ~GuideAllZero
    /\ seg_loss = 0 /\ guide_loss = 1 /\ loss = FreedomDen - freedom

\* C9: with freedom = 0.0 the returned loss is the guide loss alone when the
\* guide tensor has a non-zero entry and 0 when it is entirely zero.
C9_FreedomZero ==
    (pc = "trained" /\ freedom = 0) =>
       /\ ~GuideAllZero => loss = FreedomDen * weighted
       /\ GuideAllZero => loss = 0

\* freedom 0, no guide, a positive segmentation loss
C9_Witness ==
    /\ pc = "trained"
    /\ freedom = 0
    /\ GuideAllZero
    /\ seg_loss > 0
    /\ loss = 0

\* C10: with freedom = 1.0 the returned loss is the segmentation loss alone,
\* whatever the guide and the guide loss are.
C10_FreedomOne ==
    (pc = "trained" /\ freedom = FreedomDen) => loss = FreedomDen * seg_loss

\* freedom 1, a guided batch with a positive guide loss and no segmentation loss
C10_Witness ==
    /\ pc = "trained"
    /\ freedom = FreedomDen
    /\ ~GuideAllZero
    /\ guide_loss > 0
    /\ seg_loss = 0
    /\ loss = 0
\* the samples of the batch within the speaker budget
WithinBudget == {b \in DOMAIN batch_y : NumSpeakers(batch_y, b) <= max_speakers_per_chunk}

\* C11: training_step drops every sample whose target has more active speakers
\* than max_speakers_per_chunk before the forward pass (the target and the
\* waveform it goes on with are those of the samples within the budget, in
\* order), and when no sample survives it returns a loss of 0 without raising,
\* without calling the model and without logging any loss.
C11_DropsOverBudget ==
    (pc = "trained" \/ (pc = "error" /\ error = "RuntimeError")) =>
       /\ DOMAIN waveform = Slots(Cardinality(WithinBudget))
       /\ DOMAIN target_multilabel = DOMAIN waveform
       /\ {waveform[i] : i \in DOMAIN waveform} = WithinBudget
       /\ \A i, j \in DOMAIN waveform : i < j => waveform[i] < waveform[j]
       /\ \A i \in DOMAIN waveform : target_multilabel[i] = batch_y[waveform[i]]
       /\ forward # <<>> => forward.waveform = Cardinality(WithinBudget)
       /\ WithinBudget = {} =>
             /\ pc = "trained"
             /\ error = "none"
             /\ loss = 0
             /\ forward = <<>>
             /\ logged = {}

\* a batch of two samples, both over the budget, has been answered with the zero loss
C11_Witness ==
    /\ pc = "trained"
    /\ Cardinality(DOMAIN batch_y) = 2
    /\ WithinBudget = {}
    /\ loss = 0
    /\ forward = <<>>

\* the rows of the file of the chunk
OfFile == {a \in annotations : a.file_id = file_id}

\* C12: prepare_chunk includes an annotation of the file iff its start is before
\* the end of the chunk and its end after the start of the chunk (a row touching
\* the chunk at a boundary point only is left out); the target has num_frames
\* rows and one column per distinct label of the included rows, whatever
\* max_speakers_per_chunk is, and no column when no row is included.
C12_OverlapAndShape ==
    pc = "prepared" =>
       /\ \A a \in annotations :
             a \in chunk_annotations <=>
                (a.file_id = file_id /\ a.start < chunk.end /\ a.end > chunk.start)
       /\ \A a \in OfFile : (a.end = chunk.start \/ a.start = chunk.end) => a \notin chunk_annotations
       /\ DOMAIN sample.data = Frames(num_frames)
       /\ \A f \in Frames(num_frames) :
             DOMAIN sample.data[f] = Slots(Cardinality({a.label : a \in chunk_annotations}))
       /\ Len(sample.labels) = Cardinality({a.label : a \in chunk_annotations})
       /\ {sample.labels[i] : i \in DOMAIN sample.labels} = {a.label : a \in chunk_annotations}
       /\ chunk_annotations = {} => \A f \in Frames(num_frames) : sample.data[f] = <<>>

\* a chunk with a row left out for touching its start only, and with more
\* labels than max_speakers_per_chunk, all of them given a column
C12_Witness ==
    /\ pc = "prepared"
    /\ \E a \in OfFile : a.end = chunk.start
    /\ NumCols(sample.data) > max_speakers_per_chunk

\* C13: entry (f, label) of the target is 1 iff some included row with that label
\* has floor((max(start, chunk.start) - chunk.start) / step) <= f and
\* f < ceil((min(end, chunk.end) - chunk.start) / step), for 0 <= f < num_frames,
\* and 0 otherwise; a row sets its own column only and no frame outside
\* [0, num_frames) is written. floor(t / step) <= f is t < (f + 1) * step and
\* f < ceil(t / step) is f * step < t.
C13_FrameEntries ==
    pc = "prepared" =>
       /\ DOMAIN sample.data = Frames(num_frames)
       /\ \A f \in Frames(num_frames) : \A s \in DOMAIN sample.data[f] :
             /\ sample.data[f][s] \in Bit
             /\ sample.data[f][s] = 1 <=>
                   \E a \in chunk_annotations :
                      /\ a.label = sample.labels[s + 1]
                      /\ Maximum(a.start, chunk.start) - chunk.start < (f + 1) * step
                      /\ f * step < Minimum(a.end, chunk.end) - chunk.start

\* two rows of different labels overlap at a frame, both columns are 1 there,
\* and the end of a row falls inside a frame, beyond the last frame of the target
C13_Witness ==
    /\ pc = "prepared"
    /\ \E f \in Frames(num_frames) :
          /\ NumCols(sample.data) = 2
          /\ sample.data[f][0] = 1
          /\ sample.data[f][1] = 1
    /\ \E a \in chunk_annotations :
          /\ (Minimum(a.end, chunk.end) - chunk.start) % step # 0
          /\ EndIdx(a, chunk, step) > num_frames

\* a protocol of the right class and a speaker budget with
\* 1 <= max_speakers_per_frame <= max_speakers_per_chunk
ValidConfig(a) ==
    /\ a.protocol = "SpeakerDiarizationProtocol"
    /\ a.max_speakers_per_chunk >= 1
    /\ a.max_speakers_per_frame >= 1
    /\ a.max_speakers_per_frame <= a.max_speakers_per_chunk

\* C14: constructing the task with a protocol that is not a
\* SpeakerDiarizationProtocol, or with max_speakers_per_chunk < 1, or with
\* max_speakers_per_frame < 1 or > max_speakers_per_chunk, raises an error in the
\* constructor and never yields a task.
C14_FailFast ==
    /\ (pc = "constructed") => ValidConfig(args)
    /\ (pc \in {"constructed", "error"} /\ ~ValidConfig(args)) =>
          (pc = "error" /\ error # "none" /\ specifications = <<>>)

\* C15: collate_y does not mutate its inputs: after a call, the target matrix
\* b["y"].data of every sample (with more labels than max_speakers_per_chunk,
\* fewer, or exactly as many) is what it was before the call, so its columns
\* still correspond to b["y"].labels in order.
C15_InputsUntouched ==
    pc = "collated" =>
       /\ Len(batch) = Len(batch0)
       /\ \A i \in DOMAIN batch :
             /\ batch[i].data = batch0[i].data
             /\ batch[i].labels = batch0[i].labels

\* the frames of sample b the strategy guided
GuidedAt(b, f) == guided[b][0][f]

\* C16 as first stated: in the guide-loss branch every entry of
\* (guide + 1) * 0.5 is 0 or 1, it equals the target at every guided frame, and
\* the frame weight is 1 exactly at the guided frames.
C16_Original ==
    (pc = "trained" /\ weight # <<>>) =>
       \A b \in DOMAIN guide : \A f \in DOMAIN guide[b] :
          /\ \A s \in DOMAIN guide[b][f] : guide_multilabel[b][f][s] \in {0, 2}
          /\ GuidedAt(b, f) =>
                \A s \in DOMAIN guide[b][f] : guide_multilabel[b][f][s] = 2 * collated_y[b][f][s]
          /\ weight[b][f][0] = (IF GuidedAt(b, f) THEN 1 ELSE 0)

\* C16: in the guide-loss branch, for a guide built by apply_transform from a
\* 0/1 target, (guide + 1) * 0.5 is 0 or 1 and equal to the target at every
\* guided frame and 0.5 at every unguided frame, and the frame weight is 1
\* exactly at the guided frames and 0 at every unguided frame.
C16_GuideMultilabel ==
    (pc = "trained" /\ weight # <<>>) =>
       \A b \in DOMAIN guide : \A f \in DOMAIN guide[b] :
          /\ GuidedAt(b, f) =>
                \A s \in DOMAIN guide[b][f] :
                   /\ guide_multilabel[b][f][s] \in {0, 2}
                   /\ guide_multilabel[b][f][s] = 2 * collated_y[b][f][s]
          /\ ~GuidedAt(b, f) =>
                \A s \in DOMAIN guide[b][f] : guide_multilabel[b][f][s] = 1
          /\ weight[b][f][0] = (IF GuidedAt(b, f) THEN 1 ELSE 0)

\* the guide-loss branch ran on a batch with a guided frame where a speaker is
\* active, one where a speaker is inactive, and an unguided frame
C16_Witness ==
    /\ pc = "trained"
    /\ weight # <<>>
    /\ \E b \in DOMAIN guide : \E f \in DOMAIN guide[b] : \E s \in DOMAIN guide[b][f] :
          GuidedAt(b, f) /\ collated_y[b][f][s] = 1 /\ guide_multilabel[b][f][s] = 2
    /\ \E b \in DOMAIN guide : \E f \in DOMAIN guide[b] : \E s \in DOMAIN guide[b][f] :
          GuidedAt(b, f) /\ collated_y[b][f][s] = 0 /\ guide_multilabel[b][f][s] = 0
    /\ \E b \in DOMAIN guide : \E f \in DOMAIN guide[b] : ~GuidedAt(b, f) /\ weight[b][f][0] = 0

\* every sample of the batch target has exactly max_speakers_per_chunk columns
CollatedWidth ==
    \A b \in DOMAIN batch_y : \A f \in DOMAIN batch_y[b] :
       DOMAIN batch_y[b][f] = Slots(max_speakers_per_chunk)

\* C17: for a batch whose target was built by collate_y (exactly
\* max_speakers_per_chunk columns) the speaker-budget filter of training_step
\* keeps every sample, so the waveform, the target and the unfiltered guide
\* handed to the model and to the losses have the same number of samples, and
\* the zero loss of the corner case is returned only for a batch with no samples.
C17_FilterKeepsCollated ==
    CollatedWidth =>
       /\ error # "RuntimeError"
       /\ pc = "trained" =>
             /\ \A b \in DOMAIN keep : keep[b]
             /\ DOMAIN keep = DOMAIN batch_y
             /\ DOMAIN target_multilabel = DOMAIN batch_y
             /\ DOMAIN waveform = DOMAIN batch_y
             /\ DOMAIN guide = DOMAIN batch_y
             /\ forward # <<>> => forward.waveform = forward.guide
             /\ forward = <<>> <=> batch_y = <<>>

\* a collated batch of two samples, put in reverse order by the augmentation,
\* one of them with every speaker slot active, went through the forward pass whole
C17_Witness ==
    /\ pc = "trained"
    /\ batch0 # <<>>
    /\ batch_y # collated_y
    /\ Cardinality(DOMAIN batch_y) = 2
    /\ \E b \in DOMAIN batch_y : NumSpeakers(batch_y, b) = max_speakers_per_chunk
    /\ forward # <<>>
    /\ forward.waveform = 2
    /\ forward.guide = 2

====
